---- MODULE Spec2Model ----
(***************************************************************************)
(* Model of src/Main2.py: the character registry (add_character,           *)
(* add_predefined_characters), the conversation engine                     *)
(* (chat_with_character) and the Gradio handlers (sign_in, handle_chat,    *)
(* load_chat_history).                                                     *)
(*                                                                         *)
(* Python values are encoded as follows.  Text is a TLA+ string, f-strings *)
(* are concatenations (\o).  An optional value is a tuple: None is <<>>    *)
(* and a present value v is <<v>>.  A table is the sequence of its rows in *)
(* insertion order; ids are serial.  The store is taken to be available:   *)
(* queries and commits do not raise.                                       *)
(***************************************************************************)
EXTENDS Integers, Sequences, FiniteSets, TLC

VARIABLES
    character,          \* table `character`
    conversation,       \* table `conversation`
    gemini_api_key,     \* module global read from the environment
    uuids,              \* number of uuid4() values drawn so far
    user_id,            \* gr.State user_id
    current_chat_id,    \* gr.State current_chat_id
    chat_messages,      \* gr.State chat_messages
    call,               \* the operation that ran last and its arguments
    ret,                \* what that operation returned
    chat,               \* the chat_with_character call made by that operation
    pc,                 \* concurrent callers: position in chat_with_character
    frame               \* concurrent callers: locals of chat_with_character

vars == <<character, conversation, gemini_api_key, uuids, user_id,
          current_chat_id, chat_messages, call, ret, chat, pc, frame>>

-----------------------------------------------------------------------------
(* Python values *)

None == <<>>

Some(v) == <<v>>

\* bool(x) of an optional integer: None and 0 are falsy
TruthyInt(x) == x # None /\ x[1] # 0

\* bool(x) of an optional string: None and "" are falsy
TruthyStr(x) == x # None /\ x[1] # ""

\* `sub in s` for strings
Contains(s, sub) ==
    \E i \in 1..(Len(s) - Len(sub) + 1) : SubSeq(s, i, i + Len(sub) - 1) = sub

\* the values of a sequence
Range(s) == {s[i] : i \in 1..Len(s)}

-----------------------------------------------------------------------------
(* Character registry *)

PredefinedCharacters ==
    << [name |-> "Chuck the Clown",
        description |-> "A funny clown who tells jokes and entertains.",
        prompt_template |-> "You are Chuck the Clown, always ready with a joke and entertainment. Be upbeat, silly, and include jokes in your responses."],
       [name |-> "Sarcastic Pirate",
        description |-> "A pirate with a sharp tongue and a love for treasure.",
        prompt_template |-> "You are a Sarcastic Pirate, ready to share your tales of adventure. Use pirate slang, be witty, sarcastic, and mention your love for treasure and the sea."],
       [name |-> "Professor Sage",
        description |-> "A wise professor knowledgeable about many subjects.",
        prompt_template |-> "You are Professor Sage, sharing wisdom and knowledge. Be scholarly, thoughtful, and provide educational information in your responses."] >>

\* CharacterByName with the filter lost: the first row of the table stands in
\* for a name that has no row
CharacterByNameAny(table, name) ==
    LET hits == {i \in 1..Len(table) : table[i].name = name}
    IN  IF hits # {} THEN Some(table[CHOOSE i \in hits : TRUE])
        ELSE IF Len(table) = 0 THEN None ELSE Some(table[1])

\* Character.query.filter_by(name=name).first(): the rows of that name
\* (at most one, the column is unique); None when there is none
CharacterByName(table, name) ==
    LET hits == {i \in 1..Len(table) : table[i].name = name}
    IN  IF hits = {} THEN None ELSE Some(table[CHOOSE i \in hits : TRUE])

\* Character(name=..., description=..., prompt_template=...) added and flushed
InsertCharacter(table, name, description, prompt_template) ==
    Append(table, [id |-> Len(table) + 1, name |-> name,
                   description |-> description,
                   prompt_template |-> prompt_template])

\* the loop of add_predefined_characters from its k-th entry on
RECURSIVE SeedFrom(_, _)
SeedFrom(table, k) ==
    IF k > Len(PredefinedCharacters) THEN table
    ELSE LET c == PredefinedCharacters[k]
         IN  IF CharacterByName(table, c.name) = None
             THEN SeedFrom(InsertCharacter(table, c.name, c.description,
                                           c.prompt_template), k + 1)
             ELSE SeedFrom(table, k + 1)

\* add_predefined_characters without the test of line 92
add_predefined_characters_unchecked(table) ==
    table \o [k \in 1..Len(PredefinedCharacters) |->
                [id |-> Len(table) + k, name |-> PredefinedCharacters[k].name,
                 description |-> PredefinedCharacters[k].description,
                 prompt_template |-> PredefinedCharacters[k].prompt_template]]

\* add_predefined_characters(): the table after the commit
add_predefined_characters(table) == SeedFrom(table, 1)

\* add_character without the test of line 107
add_character_unchecked(table, name, description, prompt_template) ==
    [table |-> Append(table, [id |-> Len(table) + 1, name |-> name,
                              description |-> description,
                              prompt_template |-> prompt_template]),
     ret   |-> "Character '" \o name \o "' added successfully!\nDescription: "
               \o description]

\* add_character(name, description, prompt_template): table and return value
add_character(table, name, description, prompt_template) ==
    IF CharacterByName(table, name) # None
    THEN [table |-> table,
          ret   |-> "Character '" \o name \o "' already exists!"]
    ELSE [table |-> InsertCharacter(table, name, description, prompt_template),
          ret   |-> "Character '" \o name \o "' added successfully!\nDescription: "
                    \o description]

-----------------------------------------------------------------------------
(* Conversation engine *)

\* uuid.uuid4() rendered by str(): the n-th draw; draws never collide
uuid4(n) == "uuid-" \o ToString(n)

\* " ".join(parts)
RECURSIVE Join(_)
Join(parts) ==
    IF Len(parts) = 0 THEN ""
    ELSE IF Len(parts) = 1 THEN parts[1]
    ELSE parts[1] \o " " \o Join(Tail(parts))

\* the query of line 139 without order_by: the rows in the order of their ids
PreviousConversationsUnordered(table, uid) ==
    LET Pick[i \in 0..Len(table)] ==
            IF i = 0 THEN <<>>
            ELSE IF table[i].user_id = uid THEN Append(Pick[i - 1], table[i])
            ELSE Pick[i - 1]
    IN  {Pick[Len(table)]}

\* Conversation.query.filter_by(user_id=user_id).order_by(Conversation.timestamp)
\* .all(): the results the store may return, rows of equal timestamp in
\* either order
PreviousConversations(table, uid) ==
    LET mine == {i \in 1..Len(table) : table[i].user_id = uid}
        n    == Cardinality(mine)
    IN  { [k \in 1..n |-> table[f[k]]] :
            f \in { g \in [1..n -> mine] :
                      /\ \A a, b \in 1..n : a # b => g[a] # g[b]
                      /\ \A a, b \in 1..n :
                           a < b => table[g[a]].timestamp <= table[g[b]].timestamp } }

\* context_prompt and full_prompt (lines 140-142)
FullPrompt(prompt_template, previous_conversations, user_input) ==
    LET context_prompt ==
            Join([k \in 1..Len(previous_conversations) |->
                    "User: " \o previous_conversations[k].user_input
                    \o "\nBot: " \o previous_conversations[k].bot_response])
    IN  prompt_template \o "\n" \o context_prompt \o "\nUser: " \o user_input
        \o "\nBot:"

\* Conversation(character_id=..., user_input=..., bot_response=...,
\* chat_id=..., user_id=...) added and committed; timestamp defaults to
\* datetime.utcnow()
InsertConversation(table, character_id, user_input, bot_response, chat_id, uid, now) ==
    Append(table, [id |-> Len(table) + 1, character_id |-> character_id,
                   user_input |-> user_input, bot_response |-> bot_response,
                   timestamp |-> now, chat_id |-> chat_id, user_id |-> uid])

\* What requests.post does: it raises, or returns a response with a status
\* code and a body.  `json` says what response.json() makes of the body:
\*   "invalid"     the body is not JSON, json() raises
\*   "object"      a JSON object without the key 'candidates'
\*   "empty"       {"candidates": []}
\*   "no_content"  candidates[0] has no 'content'
\*   "text"        candidates[0].content.parts[0].text is `candidate_text`
Response(status_code, json, text, candidate_text) ==
    [raised |-> FALSE, error |-> "", status_code |-> status_code, json |-> json,
     text |-> text, candidate_text |-> candidate_text]

ConnectionError ==
    [raised |-> TRUE, error |-> "Connection refused", status_code |-> 0,
     json |-> "invalid", text |-> "", candidate_text |-> ""]

JSONDecodeError == "Expecting value: line 1 column 1 (char 0)"

\* HandleResponse with the test of line 148 lost: the first candidate of any
\* response that has one is stored
HandleResponseAnyStatus(resp) ==
    IF resp.raised
    THEN [store |-> FALSE, text |-> "An unexpected error occurred: " \o resp.error]
    ELSE IF resp.json = "text"
    THEN [store |-> TRUE, text |-> resp.candidate_text]
    ELSE [store |-> TRUE, text |-> resp.text]

\* lines 146-164: what the call does with the generator's answer.
\* store |-> whether a row is written, text |-> the first component returned
HandleResponse(resp) ==
    IF resp.raised
    THEN [store |-> FALSE, text |-> "An unexpected error occurred: " \o resp.error]
    ELSE IF resp.status_code = 200
    THEN IF resp.json = "invalid"
         THEN [store |-> FALSE,
               text |-> "An unexpected error occurred: " \o JSONDecodeError]
         ELSE IF resp.json \in {"text", "no_content"}
         THEN IF resp.json = "text"
              THEN [store |-> TRUE, text |-> resp.candidate_text]
              ELSE [store |-> FALSE,
                    text |-> "An unexpected error occurred: 'content'"]
         ELSE [store |-> FALSE,
               text |-> "An error occurred while generating content: Unexpected response format."]
    ELSE IF resp.json = "invalid"
         THEN [store |-> FALSE,
               text |-> "An unexpected error occurred: " \o JSONDecodeError]
         ELSE [store |-> FALSE,
               text |-> "An error occurred while generating content: "
                        \o ToString(resp.status_code) \o " - " \o resp.text]

\* lines 137-138 without the test: a new id is drawn in every call
SessionIdAlwaysNew(chat_id, drawn) == Some(uuid4(drawn + 1))

\* lines 137-138: the caller's chat id, or a newly drawn one
SessionId(chat_id, drawn) ==
    IF TruthyStr(chat_id) THEN chat_id ELSE Some(uuid4(drawn + 1))

\* chat_with_character(character_name, user_input, user_id, chat_id) run to
\* its end against the tables `chars` and `convs`.  `prev` is the result of
\* the query of line 139, `resp` what requests.post does when it is called,
\* `now` the clock at the insert, `drawn` the number of uuids drawn before.
chat_with_character(chars, convs, key, drawn, character_name, user_input, uid, chat_id, prev, resp, now) ==
    LET found == CharacterByName(chars, character_name)
        cid   == SessionId(chat_id, drawn)
        h     == HandleResponse(resp)
    IN  IF ~TruthyStr(key)
        THEN [ret |-> <<"An unexpected error occurred: GEMINI_API_KEY is not set in the environment.", chat_id>>,
              conversation |-> convs, uuids |-> drawn,
              request |-> None, previous_conversations |-> <<>>]
        ELSE IF found = None
        THEN [ret |-> <<"Character not found.", None>>,
              conversation |-> convs, uuids |-> drawn,
              request |-> None, previous_conversations |-> <<>>]
        ELSE [ret |-> <<h.text, cid>>,
              conversation |->
                  IF h.store
                  THEN InsertConversation(convs, found[1].id, user_input,
                                          h.text, cid, uid, now)
                  ELSE convs,
              uuids |-> IF TruthyStr(chat_id) THEN drawn ELSE drawn + 1,
              request |-> Some(FullPrompt(found[1].prompt_template, prev, user_input)),
              previous_conversations |-> prev]

-----------------------------------------------------------------------------
(* Gradio handlers *)

\* s.strip(): leading and trailing blanks removed
RECURSIVE Strip(_)
Strip(s) ==
    IF Len(s) = 0 THEN s
    ELSE IF SubSeq(s, 1, 1) = " " THEN Strip(SubSeq(s, 2, Len(s)))
    ELSE IF SubSeq(s, Len(s), Len(s)) = " " THEN Strip(SubSeq(s, 1, Len(s) - 1))
    ELSE s

Digits == <<"0", "1", "2", "3", "4", "5", "6", "7", "8", "9">>

IsDigit(c) == \E k \in 1..Len(Digits) : Digits[k] = c

DigitValue(c) == (CHOOSE k \in 1..Len(Digits) : Digits[k] = c) - 1

\* the value of a string of decimal digits, read after the value `acc`
RECURSIVE DigitsValue(_, _)
DigitsValue(s, acc) ==
    IF Len(s) = 0 THEN acc
    ELSE DigitsValue(SubSeq(s, 2, Len(s)), 10 * acc + DigitValue(SubSeq(s, 1, 1)))

\* int(s) of a string: blanks stripped, an optional sign, decimal digits;
\* anything else raises ValueError
ParseInt(s) ==
    LET t      == Strip(s)
        signed == Len(t) > 0 /\ SubSeq(t, 1, 1) \in {"-", "+"}
        d      == IF signed THEN SubSeq(t, 2, Len(t)) ELSE t
        ok     == Len(d) > 0 /\ \A i \in 1..Len(d) : IsDigit(SubSeq(d, i, i))
    IN  IF ~ok THEN [raised |-> TRUE, value |-> 0]
        ELSE [raised |-> FALSE,
              value |-> IF signed /\ SubSeq(t, 1, 1) = "-"
                        THEN 0 - DigitsValue(d, 0) ELSE DigitsValue(d, 0)]

\* sign_in(user_id_input): (sign_in_response, user_id)
sign_in(user_id_input) ==
    LET n == ParseInt(user_id_input)
    IN  IF n.raised
        THEN <<"Please enter a valid numeric User ID (e.g., 123)!", None>>
        ELSE <<"Welcome, User " \o ToString(n.value) \o "!", Some(n.value)>>

Message(role, content) == [role |-> role, content |-> content]

\* what handle_chat gives back when it returns before calling the engine
Early(messages, chat_id, display, heard) ==
    [chat_messages |-> messages, current_chat_id |-> chat_id,
     chat_id_display |-> display, heard |-> heard, engine |-> None]

\* lines 256-262 without the else branch: audio that was not understood is
\* passed over
AudioRejectedNever(audio_file, audio_text) == FALSE

\* lines 256-262: an audio file was given and speech_to_text returned nothing
AudioRejected(audio_file, audio_text) ==
    audio_file # None /\ ~TruthyStr(audio_text)

\* handle_chat(character_name, user_input, audio_file, video_file, user_id,
\* chat_messages, current_chat_id) up to the call of chat_with_character.
\* audio_text, audio_file_path and video_text are what speech_to_text and
\* extract_audio_from_video return when they are called; `heard` lists the
\* answers that were asked for.  `engine` is None on an early return and
\* else the input passed to chat_with_character and the messages so far.
handle_chat(character_name, user_input, audio_file, video_file, uid, messages, chat_id, audio_text, audio_file_path, video_text) ==
    LET after_audio ==
            IF audio_file # None /\ TruthyStr(audio_text)
            THEN user_input \o " " \o audio_text[1] ELSE user_input
        after_video ==
            IF video_file # None /\ TruthyStr(video_text)
            THEN after_audio \o " " \o video_text[1] ELSE after_audio
        shown ==
            IF video_file # None
            THEN Append(messages, Message("user", "Video uploaded")) ELSE messages
        heard_audio == IF audio_file # None THEN <<audio_text>> ELSE <<>>
    IN  IF ~TruthyInt(uid)
        THEN Early(messages, chat_id,
                   Some("Please sign in with a numeric User ID first!"), <<>>)
        ELSE IF ~TruthyStr(character_name)
        THEN Early(messages, chat_id, Some("Please select a character!"), <<>>)
        ELSE IF AudioRejected(audio_file, audio_text)
        THEN Early(Append(messages,
                          Message("assistant", "Could not understand audio.")),
                   chat_id, None, heard_audio)
        ELSE IF video_file # None /\ ~TruthyStr(audio_file_path)
        THEN Early(Append(messages,
                          Message("assistant", "Failed to extract audio from video.")),
                   chat_id, None, heard_audio \o <<audio_file_path>>)
        ELSE IF Strip(after_video) = ""
        THEN Early(shown, chat_id,
                   Some("Please provide a message, audio, or video!"),
                   heard_audio \o (IF video_file # None
                                   THEN <<audio_file_path, video_text>> ELSE <<>>))
        ELSE [chat_messages |-> shown, current_chat_id |-> chat_id,
              chat_id_display |-> None,
              heard |-> heard_audio \o (IF video_file # None
                                        THEN <<audio_file_path, video_text>> ELSE <<>>),
              engine |-> Some(after_video)]

\* load_chat_history(user_id): the cells of the history table, as displayed;
\* the results it can give, one for each order the query may return
load_chat_history(uid, table) ==
    IF ~TruthyInt(uid)
    THEN { << <<"Error", "Please sign in with a numeric User ID to view chat history.">> >> }
    ELSE { [k \in 1..Len(h) |->
              <<ToString(h[k].id),
                "User: " \o h[k].user_input \o "\nBot: " \o h[k].bot_response
                \o " at " \o ToString(h[k].timestamp)>>] :
            h \in PreviousConversations(table, uid[1]) }

-----------------------------------------------------------------------------
(* Inputs of the registry operations *)

CharacterNameInputs == {"Chuck the Clown", "Sarcastic Pirate", "Nova"}

DescriptionInputs == {"A custom persona.", "Another description."}

PromptInputs == {"You are a custom persona."}

-----------------------------------------------------------------------------
(* Registry operations as steps *)

NoChat == [called |-> FALSE]

Idle == <<>>

\* admin tab: add_character_btn.click(fn=add_character, ...)
AddCharacter(name, description, prompt_template) ==
    LET r == add_character(character, name, description, prompt_template)
    IN  /\ character' = r.table
        /\ call' = <<"add_character", name, description, prompt_template>>
        /\ ret' = <<r.ret>>
        /\ chat' = NoChat
        /\ UNCHANGED <<conversation, gemini_api_key, uuids, user_id,
                       current_chat_id, chat_messages, pc, frame>>

\* create_interface(): add_predefined_characters()
AddPredefinedCharacters ==
    /\ character' = add_predefined_characters(character)
    /\ call' = <<"add_predefined_characters">>
    /\ ret' = None
    /\ chat' = NoChat
    /\ UNCHANGED <<conversation, gemini_api_key, uuids, user_id,
                   current_chat_id, chat_messages, pc, frame>>

\* a fresh database, the module imported, no interface built yet
InitRegistry ==
    /\ character = <<>>
    /\ conversation = <<>>
    /\ gemini_api_key = Some("test-key")
    /\ uuids = 0
    /\ user_id = None
    /\ current_chat_id = None
    /\ chat_messages = <<>>
    /\ call = <<"init">>
    /\ ret = None
    /\ chat = NoChat
    /\ pc = Idle
    /\ frame = Idle

NextRegistry ==
    \/ \E name \in CharacterNameInputs, description \in DescriptionInputs,
          prompt_template \in PromptInputs :
            AddCharacter(name, description, prompt_template)
    \/ AddPredefinedCharacters

SpecRegistry == InitRegistry /\ [][NextRegistry]_vars

PredefinedNames ==
    {PredefinedCharacters[k].name : k \in 1..Len(PredefinedCharacters)}

RowsNamed(table, name) == {i \in 1..Len(table) : table[i].name = name}

\* C4: add_character with a name that is already in the character table
\* leaves the table as it was and returns "Character '<name>' already
\* exists!"; and under every interleaving of add_character and
\* add_predefined_characters no two rows of the table share a name.
C4_DuplicateNameRejected ==
    /\ [][(call'[1] = "add_character" /\ RowsNamed(character, call'[2]) # {})
            => /\ character' = character
               /\ ret' = <<"Character '" \o call'[2] \o "' already exists!">>]_vars
    /\ [](\A i, j \in 1..Len(character) :
            character[i].name = character[j].name => i = j)

\* C4 witness: add_character has just refused a name that the table holds
C4_Witness ==
    /\ call[1] = "add_character"
    /\ Contains(ret[1], "already exists!")
    /\ Len(character) >= 2

\* C5: add_predefined_characters leaves every row that was present
\* unchanged, appends a default exactly when no row of its name existed, so
\* that each of the three default names has exactly one row afterwards, and
\* calling it again changes nothing.
C5_SeedingIdempotent ==
    [][call'[1] = "add_predefined_characters"
        => /\ Len(character') >= Len(character)
           /\ SubSeq(character', 1, Len(character)) = character
           /\ \A n \in PredefinedNames : Cardinality(RowsNamed(character', n)) = 1
           /\ \A i \in (Len(character) + 1)..Len(character') :
                /\ character'[i].name \in PredefinedNames
                /\ RowsNamed(character, character'[i].name) = {}
           /\ add_predefined_characters(character') = character'
           /\ (call[1] = "add_predefined_characters" => character' = character)]_vars

\* C5 witness: seeding has run twice in a row on a table that already held
\* a custom row under a default name
C5_Witness ==
    /\ call[1] = "add_predefined_characters"
    /\ Len(character) = 4
    /\ \E i \in 1..Len(character) :
         /\ character[i].name = "Chuck the Clown"
         /\ character[i].description = "A custom persona."

-----------------------------------------------------------------------------
(* The conversation engine called directly *)

MaxRows == 2

MaxUuids == 3

Responses ==
    { ConnectionError,
      Response(200, "text",
               "{\"candidates\": [{\"content\": {\"parts\": [{\"text\": \"Why did the chicken cross the road?\"}]}}]}",
               "Why did the chicken cross the road?"),
      Response(200, "empty", "{\"candidates\": []}", ""),
      Response(200, "object", "{}", ""),
      Response(200, "no_content", "{\"candidates\": [{\"finishReason\": \"SAFETY\"}]}", ""),
      Response(200, "invalid", "<html>Bad gateway</html>", ""),
      Response(500, "object", "{\"error\": {\"status\": \"INTERNAL\"}}", ""),
      Response(500, "invalid", "Internal Server Error", "") }

\* the chat ids a caller can pass: none, or one an earlier call returned
ChatIdInputs == {None} \cup {Some(uuid4(k)) : k \in 1..uuids}

\* the record of a chat_with_character call: the request it posted (None
\* when it posted nothing), the generator's answer to it, and the rows the
\* query of line 139 returned
ChatRecord(r, resp) ==
    [called |-> TRUE, request |-> r.request,
     response |-> IF r.request = None THEN None ELSE Some(resp),
     previous_conversations |-> r.previous_conversations]

ChatWithCharacter(character_name, user_input, uid, chat_id, prev, resp, now) ==
    LET r == chat_with_character(character, conversation, gemini_api_key, uuids,
                                 character_name, user_input, uid, chat_id,
                                 prev, resp, now)
    IN  /\ Len(r.conversation) <= MaxRows
        /\ r.uuids <= MaxUuids
        /\ conversation' = r.conversation
        /\ uuids' = r.uuids
        /\ call' = <<"chat_with_character", character_name, user_input, uid, chat_id>>
        /\ ret' = r.ret
        /\ chat' = ChatRecord(r, resp)
        /\ UNCHANGED <<character, gemini_api_key, user_id, current_chat_id,
                       chat_messages, pc, frame>>

\* a call with arguments and generator answers drawn from the given sets;
\* the store answers the query of line 139 and the clock reads one of `times`
ChatCall(names, inputs, uids, chat_ids, resps, times) ==
    \E character_name \in names, user_input \in inputs, uid \in uids,
       chat_id \in chat_ids, resp \in resps, now \in times :
        \E prev \in PreviousConversations(conversation, uid) :
            ChatWithCharacter(character_name, user_input, uid, chat_id,
                              prev, resp, now)

\* a fresh database and the module imported, with or without an API key in
\* the environment
Init ==
    /\ character = <<>>
    /\ conversation = <<>>
    /\ gemini_api_key \in {None, Some("test-key")}
    /\ uuids = 0
    /\ user_id = None
    /\ current_chat_id = None
    /\ chat_messages = <<>>
    /\ call = <<"init">>
    /\ ret = None
    /\ chat = NoChat
    /\ pc = Idle
    /\ frame = Idle

\* one user talking to one character, every answer of the generator, a clock
\* that advances from one insert to the next
Next ==
    \/ AddPredefinedCharacters
    \/ ChatCall({"Professor Sage", "Unknown Character"}, {"Tell me a joke"},
                {123}, ChatIdInputs, Responses, {Len(conversation) + 1})

Spec == Init /\ [][Next]_vars

Timestamps == {1, 2}

\* two users talking to two characters, each call opening a new session, the
\* generator answering or not, a clock that may stand still or step back
NextHistory ==
    \/ AddPredefinedCharacters
    \/ ChatCall({"Chuck the Clown", "Professor Sage"}, {"Tell me a joke"},
                {1, 2}, {None},
                {ConnectionError,
                 Response(200, "text", "{\"candidates\": [{\"content\": {\"parts\": [{\"text\": \"Aye\"}]}}]}", "Aye")},
                Timestamps)

SpecHistory == InitRegistry /\ [][NextHistory]_vars

-----------------------------------------------------------------------------
(* One browser session of the interface *)

MaxMessages == 3

SignInInputs == {"7", "0", "-1", "abc"}

\* sign_in_btn.click(fn=sign_in, ..., outputs=[sign_in_response, user_id])
SignIn(user_id_input) ==
    LET r == sign_in(user_id_input)
    IN  /\ user_id' = r[2]
        /\ call' = <<"sign_in", user_id_input>>
        /\ ret' = r
        /\ chat' = NoChat
        /\ UNCHANGED <<character, conversation, gemini_api_key, uuids,
                       current_chat_id, chat_messages, pc, frame>>

\* chat_btn.click(fn=handle_chat, ..., outputs=[chat_response,
\* current_chat_id, chat_id_display]); chat_messages is appended to in place
HandleChat(character_name, user_input, audio_file, video_file, audio_text, audio_file_path, video_text, prev, resp, now) ==
    LET h == handle_chat(character_name, user_input, audio_file, video_file,
                         user_id, chat_messages, current_chat_id,
                         audio_text, audio_file_path, video_text)
        r == chat_with_character(character, conversation, gemini_api_key, uuids,
                                 character_name[1], h.engine[1], user_id[1],
                                 current_chat_id, prev, resp, now)
        said == Append(Append(h.chat_messages, Message("user", h.engine[1])),
                       Message("assistant", r.ret[1]))
    IN  /\ call' = <<"handle_chat", character_name, user_input, audio_file,
                     video_file, h.heard>>
        /\ UNCHANGED <<character, gemini_api_key, user_id, pc, frame>>
        /\ IF h.engine = None
           THEN /\ Len(h.chat_messages) <= MaxMessages
                /\ chat_messages' = h.chat_messages
                /\ current_chat_id' = h.current_chat_id
                /\ ret' = <<h.chat_messages, h.current_chat_id, h.chat_id_display>>
                /\ chat' = NoChat
                /\ UNCHANGED <<conversation, uuids>>
           ELSE /\ Len(said) <= MaxMessages
                /\ Len(r.conversation) <= MaxRows
                /\ r.uuids <= MaxUuids
                /\ chat_messages' = said
                /\ current_chat_id' = r.ret[2]
                /\ ret' = <<said, r.ret[2], r.ret[2]>>
                /\ chat' = ChatRecord(r, resp)
                /\ conversation' = r.conversation
                /\ uuids' = r.uuids

\* view_history_btn.click(fn=load_chat_history, inputs=[user_id], ...)
LoadChatHistory ==
    /\ ret' \in load_chat_history(user_id, conversation)
    /\ call' = <<"load_chat_history">>
    /\ chat' = NoChat
    /\ UNCHANGED <<character, conversation, gemini_api_key, uuids, user_id,
                   current_chat_id, chat_messages, pc, frame>>

\* create_interface() has run on a fresh database, with the API key that
\* __main__ requires, and a browser has loaded the page: every gr.State
\* holds its initial value
InitUI ==
    /\ character = add_predefined_characters(<<>>)
    /\ conversation = <<>>
    /\ gemini_api_key = Some("test-key")
    /\ uuids = 0
    /\ user_id = None
    /\ current_chat_id = None
    /\ chat_messages = <<>>
    /\ call = <<"load">>
    /\ ret = None
    /\ chat = NoChat
    /\ pc = Idle
    /\ frame = Idle

UIResponses ==
    { Response(200, "text", "{\"candidates\": [{\"content\": {\"parts\": [{\"text\": \"Honk!\"}]}}]}", "Honk!"),
      Response(500, "invalid", "Internal Server Error", "") }

\* what the transcription and extraction services answer when a file is given
Heard(file, answers) == IF file = None THEN {None} ELSE answers

NextUI ==
    \/ \E user_id_input \in SignInInputs : SignIn(user_id_input)
    \/ \E character_name \in {None, Some("Chuck the Clown")},
          user_input \in {"", "hi"},
          audio_file \in {None, Some("voice.wav")},
          video_file \in {None, Some("clip.mp4")} :
            \E audio_text \in Heard(audio_file, {None, Some("sing")}),
               audio_file_path \in Heard(video_file, {None, Some("temp_audio.wav")}) :
                \E video_text \in Heard(audio_file_path, {None, Some("dance")}),
                   resp \in UIResponses,
                   prev \in (IF TruthyInt(user_id)
                             THEN PreviousConversations(conversation, user_id[1])
                             ELSE {<<>>}) :
                    HandleChat(character_name, user_input, audio_file, video_file,
                               audio_text, audio_file_path, video_text, prev, resp,
                               Len(conversation) + 1)
    \/ LoadChatHistory

SpecUI == InitUI /\ [][NextUI]_vars

-----------------------------------------------------------------------------
(* Concurrent callers of chat_with_character *)

Callers == {"a", "b"}

NoFrame ==
    [user_input |-> "", user_id |-> 0, chat_id |-> None, character_id |-> 0,
     previous_conversations |-> <<>>, full_prompt |-> "", bot_response |-> "",
     conversation |-> 0, ret |-> None]

\* lines 131-145 for a character that was found: the locals after the query
\* and the prompt are built
chat_read(found, user_input, uid, chat_id, drawn, prev) ==
    [user_input |-> user_input, user_id |-> uid,
     chat_id |-> SessionId(chat_id, drawn), character_id |-> found.id,
     previous_conversations |-> prev,
     full_prompt |-> FullPrompt(found.prompt_template, prev, user_input),
     bot_response |-> "", conversation |-> 0, ret |-> None]

\* lines 152-156 with the query of line 139 repeated before the commit
chat_commit_reread(f, table) ==
    [f EXCEPT !.conversation = Len(table) + 1,
              !.ret = <<f.bot_response, f.chat_id>>,
              !.previous_conversations =
                  CHOOSE h \in PreviousConversations(table, f.user_id) : TRUE]

\* lines 152-156: the row is added and committed with the locals as they
\* are; the query of line 139 is not repeated
chat_commit(f, table) ==
    [f EXCEPT !.conversation = Len(table) + 1,
              !.ret = <<f.bot_response, f.chat_id>>]

\* a caller enters chat_with_character and runs to the request (line 146),
\* or returns before it
RaceRead(p, character_name, user_input, uid, chat_id) ==
    LET found == CharacterByName(character, character_name)
    IN  /\ pc[p] = "idle"
        /\ IF ~TruthyStr(gemini_api_key)
           THEN /\ frame' = [frame EXCEPT ![p] = [NoFrame EXCEPT !.ret =
                      <<"An unexpected error occurred: GEMINI_API_KEY is not set in the environment.", chat_id>>]]
                /\ UNCHANGED <<pc, uuids>>
           ELSE IF found = None
           THEN /\ frame' = [frame EXCEPT ![p] = [NoFrame EXCEPT !.ret =
                      <<"Character not found.", None>>]]
                /\ UNCHANGED <<pc, uuids>>
           ELSE /\ uuids' = IF TruthyStr(chat_id) THEN uuids ELSE uuids + 1
                /\ uuids' <= MaxUuids
                /\ \E prev \in PreviousConversations(conversation, uid) :
                     frame' = [frame EXCEPT ![p] =
                                 chat_read(found[1], user_input, uid, chat_id, uuids, prev)]
                /\ pc' = [pc EXCEPT ![p] = "post"]
        /\ UNCHANGED <<character, conversation, gemini_api_key, user_id,
                       current_chat_id, chat_messages, call, ret, chat>>

\* requests.post returns or raises (lines 146-151, 157-164)
RacePost(p, resp) ==
    LET h == HandleResponse(resp)
    IN  /\ pc[p] = "post"
        /\ IF h.store
           THEN /\ frame' = [frame EXCEPT ![p].bot_response = h.text]
                /\ pc' = [pc EXCEPT ![p] = "commit"]
           ELSE /\ frame' = [frame EXCEPT ![p].ret = <<h.text, frame[p].chat_id>>]
                /\ pc' = [pc EXCEPT ![p] = "idle"]
        /\ UNCHANGED <<character, conversation, gemini_api_key, uuids, user_id,
                       current_chat_id, chat_messages, call, ret, chat>>

\* the row is added and committed, the call returns (lines 152-156)
RaceCommit(p, now) ==
    /\ pc[p] = "commit"
    /\ Len(conversation) < MaxRows
    /\ conversation' = InsertConversation(conversation, frame[p].character_id,
                                          frame[p].user_input, frame[p].bot_response,
                                          frame[p].chat_id, frame[p].user_id, now)
    /\ frame' = [frame EXCEPT ![p] = chat_commit(frame[p], conversation)]
    /\ pc' = [pc EXCEPT ![p] = "idle"]
    /\ UNCHANGED <<character, gemini_api_key, uuids, user_id, current_chat_id,
                   chat_messages, call, ret, chat>>

\* the interface is up on a fresh database and two callers are outside any call
InitRace ==
    /\ character = add_predefined_characters(<<>>)
    /\ conversation = <<>>
    /\ gemini_api_key = Some("test-key")
    /\ uuids = 0
    /\ user_id = None
    /\ current_chat_id = None
    /\ chat_messages = <<>>
    /\ call = <<"init">>
    /\ ret = None
    /\ chat = NoChat
    /\ pc = [p \in Callers |-> "idle"]
    /\ frame = [p \in Callers |-> NoFrame]

NextRace ==
    \E p \in Callers :
        \/ \E character_name \in {"Chuck the Clown", "Unknown Character"},
              uid \in {1, 2} :
                RaceRead(p, character_name, "Tell me a joke", uid, None)
        \/ \E resp \in UIResponses : RacePost(p, resp)
        \/ \E now \in Timestamps : RaceCommit(p, now)

SpecRace == InitRace /\ [][NextRace]_vars

\* C9: nothing between the query of line 139 and the commit refreshes a
\* caller's context or makes the commit wait: in every step of a caller that
\* is past the query, its previous_conversations stay as read, also when
\* another caller's row has been committed in between, and the commit goes
\* through with that context.  (The interleaving the claim describes is the
\* state C9_Witness.)
C9_NoRereadBeforeCommit ==
    [][\A p \in Callers :
        pc[p] \in {"post", "commit"} =>
            /\ frame'[p].previous_conversations = frame[p].previous_conversations
            /\ frame'[p].full_prompt = frame[p].full_prompt
            /\ (pc[p] = "commit" /\ pc'[p] = "idle") =>
                 /\ Len(conversation') = Len(conversation) + 1
                 /\ conversation'[Len(conversation')].id = frame'[p].conversation]_vars

\* C9 witness: two calls for the same user read the same prior turns before
\* either committed; both rows are stored, and the context of the call that
\* committed second does not hold the row of the call that committed first
C9_Witness ==
    \E p, q \in Callers :
        /\ p # q
        /\ pc[p] = "idle" /\ pc[q] = "idle"
        /\ frame[p].conversation > 0
        /\ frame[q].conversation > frame[p].conversation
        /\ frame[p].user_id = frame[q].user_id
        /\ frame[p].previous_conversations = frame[q].previous_conversations
        /\ \A k \in 1..Len(frame[q].previous_conversations) :
             frame[q].previous_conversations[k].id # frame[p].conversation
        /\ conversation[frame[p].conversation].user_id = frame[q].user_id

-----------------------------------------------------------------------------
(* Properties of the conversation engine *)

IsChatCall(c) == c[1] = "chat_with_character"

\* the generator was called and answered HTTP 200 with
\* candidates[0].content.parts[0].text
GeneratorSucceeded(c) ==
    /\ c.called
    /\ c.response # None
    /\ ~c.response[1].raised
    /\ c.response[1].status_code = 200
    /\ c.response[1].json = "text"

\* the generator was called and answered with a status other than 200
GeneratorRefused(c) ==
    /\ c.called
    /\ c.response # None
    /\ ~c.response[1].raised
    /\ c.response[1].status_code # 200

Known(name) == RowsNamed(character, name) # {}

\* C1: a chat_with_character call whose generator call fails (or is never
\* made) leaves the conversation table unchanged; a call whose generator call
\* succeeds appends exactly one row, carrying the user_input, the response
\* text, the user_id, the chat id and the id of the character of that name.
C1_TurnPersistence ==
    [][IsChatCall(call') =>
        IF GeneratorSucceeded(chat')
        THEN /\ Len(conversation') = Len(conversation) + 1
             /\ SubSeq(conversation', 1, Len(conversation)) = conversation
             /\ LET row == conversation'[Len(conversation')]
                IN  /\ row.user_input = call'[3]
                    /\ row.bot_response = chat'.response[1].candidate_text
                    /\ row.bot_response = ret'[1]
                    /\ row.user_id = call'[4]
                    /\ row.chat_id = ret'[2]
                    /\ (call'[5] # None => row.chat_id = call'[5])
                    /\ \E i \in RowsNamed(character, call'[2]) :
                         row.character_id = character[i].id
        ELSE conversation' = conversation]_vars

\* C1 witness: a successful call has added a second row to the table
C1_Witness ==
    /\ IsChatCall(call)
    /\ GeneratorSucceeded(chat)
    /\ Len(conversation) = 2

\* C1 witness of the failing side: the generator was called and failed
C1_WitnessFailure ==
    /\ IsChatCall(call)
    /\ chat.response # None
    /\ ~GeneratorSucceeded(chat)
    /\ Len(conversation) = 1

\* what C3 says of one call: without a chat id it returns a non-empty id that
\* no row carried before; with a chat id it returns that id and stores it on
\* the row it persists
SessionIdCarried ==
    /\ call'[5] = None =>
         /\ TruthyStr(ret'[2])
         /\ \A i \in 1..Len(conversation) : conversation[i].chat_id # ret'[2]
    /\ TruthyStr(call'[5]) =>
         /\ ret'[2] = call'[5]
         /\ conversation' # conversation =>
              conversation'[Len(conversation')].chat_id = call'[5]

\* C3 as stated: every chat_with_character call carries the session id so.
C3_Original == [][IsChatCall(call') => SessionIdCarried]_vars

\* C3 as amended: a call for a character of the table, with the API key set,
\* carries the session id so.
C3_SessionIdCarried ==
    [][(IsChatCall(call') /\ TruthyStr(gemini_api_key) /\ Known(call'[2]))
        => SessionIdCarried]_vars

\* C3 witness: the id returned by a call without chat id was passed to a
\* second call, which returned it and stored it: two rows of one session
C3_Witness ==
    /\ IsChatCall(call)
    /\ call[5] = Some(uuid4(1))
    /\ ret[2] = Some(uuid4(1))
    /\ Len(conversation) = 2
    /\ \A i \in 1..2 : conversation[i].chat_id = Some(uuid4(1))

\* C6 as stated: when the generator answers with a status other than 200 the
\* call returns a text containing the status code, returns the caller's chat
\* id (or the one it drew) and writes no row, whatever the response body.
C6_Original ==
    [][(IsChatCall(call') /\ GeneratorRefused(chat')) =>
        /\ Contains(ret'[1], ToString(chat'.response[1].status_code))
        /\ ret'[2] = (IF TruthyStr(call'[5]) THEN call'[5] ELSE Some(uuid4(uuids')))
        /\ conversation' = conversation]_vars

\* C7 as stated: a call naming a character that is not in the table returns
\* ("Character not found.", None), posts nothing and writes no row.
C7_Original ==
    [][(IsChatCall(call') /\ ~Known(call'[2])) =>
        /\ ret' = <<"Character not found.", None>>
        /\ chat'.request = None
        /\ conversation' = conversation]_vars

\* C7 as amended: with the API key set such a call returns ("Character not
\* found.", None); without the key it returns the missing-key error and the
\* caller's chat id; either way it posts nothing and writes no row.
C7_CharacterNotFound ==
    [][(IsChatCall(call') /\ ~Known(call'[2])) =>
        /\ TruthyStr(gemini_api_key) => ret' = <<"Character not found.", None>>
        /\ ~TruthyStr(gemini_api_key) =>
             /\ Contains(ret'[1], "GEMINI_API_KEY is not set")
             /\ ret'[2] = call'[5]
        /\ chat'.request = None
        /\ conversation' = conversation]_vars

\* C7 witness: in a running session, with rows stored, a call names a
\* character that is not in the table and passes the session's chat id
C7_Witness ==
    /\ IsChatCall(call)
    /\ call[2] = "Unknown Character"
    /\ call[5] = Some(uuid4(1))
    /\ ret = <<"Character not found.", None>>
    /\ Len(conversation) >= 1

\* C2: the rows a call for user U reads for its context are exactly the rows
\* of U persisted before the call, each once, whatever their character and
\* chat id, in ascending order of timestamp.
C2_ContextIsUserHistory ==
    [][(IsChatCall(call') /\ chat'.request # None) =>
        LET prev == chat'.previous_conversations
            mine == {i \in 1..Len(conversation) : conversation[i].user_id = call'[4]}
        IN  /\ Range(prev) = {conversation[i] : i \in mine}
            /\ Len(prev) = Cardinality(mine)
            /\ \A a, b \in 1..Len(prev) :
                 a < b => prev[a].timestamp <= prev[b].timestamp]_vars

\* C2 witness: the context holds two turns of the user, with different
\* characters and sessions, the later-stored one first because its timestamp
\* is the earlier
C2_Witness ==
    /\ IsChatCall(call)
    /\ chat.request # None
    /\ Len(chat.previous_conversations) = 2
    /\ chat.previous_conversations[1].id > chat.previous_conversations[2].id
    /\ chat.previous_conversations[1].character_id
         # chat.previous_conversations[2].character_id
    /\ chat.previous_conversations[1].chat_id
         # chat.previous_conversations[2].chat_id

\* C2 witness: the table holds a row of another user, which the context omits
C2_WitnessOtherUser ==
    /\ IsChatCall(call)
    /\ chat.request # None
    /\ Len(chat.previous_conversations) = 1
    /\ Len(conversation) = 2
    /\ \E i \in 1..2 : conversation[i].user_id # call[4]

-----------------------------------------------------------------------------
(* Properties of the handlers *)

\* C8: handle_chat for a signed-in user with a selected character, given an
\* audio file for which speech_to_text returns nothing, appends the one
\* assistant message "Could not understand audio.", does not call
\* chat_with_character, writes no row and keeps the current chat id,
\* whatever text and video come with the audio.
C8_AudioNotUnderstood ==
    [][(/\ call'[1] = "handle_chat"
        /\ TruthyInt(user_id)
        /\ TruthyStr(call'[2])
        /\ call'[4] # None
        /\ ~TruthyStr(call'[6][1]))
        => /\ chat_messages' = Append(chat_messages,
                 [role |-> "assistant", content |-> "Could not understand audio."])
           /\ ~chat'.called
           /\ conversation' = conversation
           /\ uuids' = uuids
           /\ current_chat_id' = current_chat_id]_vars

\* C8 witness: in a session that has a chat id, audio that was not understood
\* came with text and a video
C8_Witness ==
    /\ call[1] = "handle_chat"
    /\ TruthyInt(user_id)
    /\ TruthyStr(call[2])
    /\ call[3] = "hi"
    /\ call[4] # None
    /\ call[5] # None
    /\ call[6] = <<None>>
    /\ current_chat_id # None
    /\ Len(chat_messages) = 3

\* C10 as stated: once sign_in has stored an integer as the session's user
\* id, handle_chat with a selected character and non-empty text reaches
\* chat_with_character, and load_chat_history returns the user's turns and
\* not the sign-in message.
C10_Original ==
    [][/\ (/\ call'[1] = "handle_chat"
           /\ user_id # None
           /\ TruthyStr(call'[2])
           /\ Strip(call'[3]) # ""
           /\ call'[4] = None
           /\ call'[5] = None) => chat'.called
       /\ (call'[1] = "load_chat_history" /\ user_id # None) =>
            ret' # << <<"Error", "Please sign in with a numeric User ID to view chat history.">> >>]_vars

====
